---- MODULE Spec2Model ----
(***************************************************************************)
(* The rules engine of the snake game: the useSnakeGame hook of            *)
(* src/src/hooks/useSnakeGame.ts (final revision, lines 493-1038).         *)
(*                                                                         *)
(* Every handler (a tick of the game loop, a timer callback, a command of  *)
(* the UI) runs to completion and React commits its batched state updates  *)
(* before the next handler runs, so each handler is one atomic action that *)
(* reads the committed state through its closure.                          *)
(*                                                                         *)
(* Coordinates are canvas pixels, multiples of GRID_SIZE, as in the        *)
(* source.  The score is counted in half points, because the final         *)
(* revision adds 1 / 2 for a food: score = 2 * (the source's score).       *)
(* Wall-clock time is abstracted: a timed power-up may expire at any       *)
(* moment while the game is running.  steps counts the ticks and the       *)
(* activatePowerUp calls since the hook was mounted, to bound a run.       *)
(* activatePowerUp is exported by the hook; no component calls it.         *)
(* canvas is the size of the canvas the hook was built for: it never       *)
(* changes.  Spec runs the hook on a reduced canvas, where walls are near; *)
(* SpecSourceCanvas runs it on the canvas of src/constants.ts, and         *)
(* SpecStripCanvas on a canvas of one row, which a snake can fill.         *)
(* timers is null in these specifications.  SpecTimed measures time, on    *)
(* the canvas of one row: there timers holds, for each timer of the        *)
(* scheduling effect, the time left until it fires, and the time left to   *)
(* the end time of the active power-up; a timer fires when its time is up  *)
(* and Advance lets time pass.  SpecUI adds the PLAY AGAIN button of       *)
(* GameUI, and SpecCurled takes the game up from a snapshot four steps     *)
(* into a run, where one tick can eat and collide.                         *)
(***************************************************************************)
EXTENDS Integers, Sequences, FiniteSets, TLC

VARIABLES snake, food, powerUp, activePowerUp, direction, score,
          isGameOver, isGameStarted, gameMessage,
          changingDirectionRef, pendingSpawn, steps, canvas, timers

vars == <<snake, food, powerUp, activePowerUp, direction, score,
          isGameOver, isGameStarted, gameMessage,
          changingDirectionRef, pendingSpawn, steps, canvas, timers>>

-----------------------------------------------------------------------------
(* Bounds of the model *)

\* the reduced canvas is GridCols x GridRows cells (the source's is 20 x 20)
GridCols == 6
GridRows == 2
\* ticks of the game loop and activatePowerUp calls in a run
MaxSteps == 2
\* Math.random is sampled: getRandomGridCoords yields the MaxRandomCells cells
\* nearest to the head of the initial snake (cells of the snake among them)
MaxRandomCells == 6
\* in SpecTimed the end time of a power-up is cut to MaxLife units of time
\* after its activation
MaxLife == 5
\* the magnet callback is applied to every food cell at most MaxOffset cells
\* away from the head along each axis
MaxOffset == 2

-----------------------------------------------------------------------------
(* src/constants.ts *)

GRID_SIZE == 20
CANVAS_WIDTH == canvas.width
CANVAS_HEIGHT == canvas.height

\* the canvas of src/constants.ts and the reduced canvas
SourceCanvas == [width |-> 400, height |-> 400]
ReducedCanvas == [width |-> GridCols * GRID_SIZE, height |-> GridRows * GRID_SIZE]
\* a canvas of one row of GridCols cells
StripCanvas == [width |-> GridCols * GRID_SIZE, height |-> GRID_SIZE]

\* the steps of a run: on the strip with time not measured, the foods that
\* fill it (the initial snake has three segments)
StepBudget == IF canvas = StripCanvas /\ timers = <<>> THEN GridCols - 3 ELSE MaxSteps

INITIAL_SNAKE_SPEED_MS == 150

LEFT_KEY == 37
UP_KEY == 38
RIGHT_KEY == 39
DOWN_KEY == 40

ArrowKeys == {LEFT_KEY, UP_KEY, RIGHT_KEY, DOWN_KEY}

-----------------------------------------------------------------------------
(* src/types.ts and the tables of the hook *)

PowerUpTypes == {"ghostTime", "magnetHead", "doubleScore", "goldenApple",
                 "speedBoost", "snailTime", "mysteryBox", "blackoutMode"}

Directions == {"up", "down", "left", "right"}

POWERUP_DURATIONS == [t \in PowerUpTypes |->
    CASE t = "ghostTime" -> 8000
      [] t = "magnetHead" -> 10000
      [] t = "doubleScore" -> 8000
      [] t = "speedBoost" -> 6000
      [] t = "snailTime" -> 12000
      [] t = "blackoutMode" -> 8000
      [] t = "goldenApple" -> 0
      [] t = "mysteryBox" -> 0]

POWERUP_SPAWN_CHANCES == [t \in PowerUpTypes |->
    CASE t = "ghostTime" -> 12
      [] t = "magnetHead" -> 15
      [] t = "doubleScore" -> 18
      [] t = "goldenApple" -> 8
      [] t = "speedBoost" -> 12
      [] t = "snailTime" -> 10
      [] t = "mysteryBox" -> 5
      [] t = "blackoutMode" -> 8]

\* a nullable value is the empty sequence or a one-element sequence
null == <<>>
Some(v) == <<v>>

Pos(x, y) == [x |-> x, y |-> y]

\* n whole points in the unit of the score variable (half points)
Points(n) == 2 * n

\* gameMessage: the text and, for the game-over message, the score it shows
Msg(text) == [text |-> text, score |-> 0]
GameOverMsg(currentScore) == [text |-> "Game Over! Final Score", score |-> currentScore]

-----------------------------------------------------------------------------
(* Helpers of the hook *)

\* the cells of a canvas
GridCells(c) == {Pos(i * GRID_SIZE, j * GRID_SIZE) : i \in 0 .. (c.width \div GRID_SIZE) - 1,
                                                    j \in 0 .. (c.height \div GRID_SIZE) - 1}

\* the sample of Math.random on a canvas: the MaxRandomCells cells nearest to
\* the head of the initial snake (ties: the smaller x, then the smaller y)
RandomCells(c) ==
    LET Abs(n) == IF n < 0 THEN -n ELSE n
        centre == Pos(((c.width \div 2 - GRID_SIZE) \div GRID_SIZE) * GRID_SIZE,
                      ((c.height \div 2) \div GRID_SIZE) * GRID_SIZE)
        Dist(e) == Abs(e.x - centre.x) + Abs(e.y - centre.y)
        Nearer(d, e) == \/ Dist(d) < Dist(e)
                        \/ Dist(d) = Dist(e) /\ d.x < e.x
                        \/ Dist(d) = Dist(e) /\ d.x = e.x /\ d.y < e.y
    IN {e \in GridCells(c) : Cardinality({d \in GridCells(c) : Nearer(d, e)}) < MaxRandomCells}

ReducedRandomCells == RandomCells(ReducedCanvas)
SourceRandomCells == RandomCells(SourceCanvas)
StripRandomCells == RandomCells(StripCanvas)

\* the values getRandomGridCoords returns in the model
getRandomGridCoords ==
    IF canvas = SourceCanvas THEN SourceRandomCells
    ELSE IF canvas = StripCanvas THEN StripRandomCells
    ELSE ReducedRandomCells

\* the cells the rejection sampling of generateCollectiblePosition can return
generateCollectiblePosition(currentSnake, currentFood, currentPowerUp) ==
    {c \in getRandomGridCoords :
        /\ \A i \in 1 .. Len(currentSnake) :
              ~(currentSnake[i].x = c.x /\ currentSnake[i].y = c.y)
        /\ ~(currentFood # null /\ currentFood[1].x = c.x /\ currentFood[1].y = c.y)
        /\ ~(currentPowerUp # null /\ currentPowerUp[1].x = c.x /\ currentPowerUp[1].y = c.y)}

IsActive(active, type) == active # null /\ active[1].type = type

\* a slip: ghost mode suppresses the check of the body only, not of the walls
checkCollision_WallsUnderGhost(currentSnake, active) ==
    LET head == currentSnake[1] IN
    IF head.x < 0 \/ head.x >= CANVAS_WIDTH \/ head.y < 0 \/ head.y >= CANVAS_HEIGHT
    THEN TRUE
    ELSE IF IsActive(active, "ghostTime") THEN FALSE
    ELSE \E i \in 2 .. Len(currentSnake) :
            head.x = currentSnake[i].x /\ head.y = currentSnake[i].y

\* a slip: the loop over the body starts one segment too late
checkCollision_SkipsNeck(currentSnake, active) ==
    LET head == currentSnake[1] IN
    IF IsActive(active, "ghostTime") THEN FALSE
    ELSE IF head.x < 0 \/ head.x >= CANVAS_WIDTH \/ head.y < 0 \/ head.y >= CANVAS_HEIGHT
         THEN TRUE
    ELSE \E i \in 3 .. Len(currentSnake) :
            head.x = currentSnake[i].x /\ head.y = currentSnake[i].y

checkCollision(currentSnake, active) ==
    LET head == currentSnake[1] IN
    IF IsActive(active, "ghostTime") THEN FALSE
    ELSE IF head.x < 0 \/ head.x >= CANVAS_WIDTH \/ head.y < 0 \/ head.y >= CANVAS_HEIGHT
         THEN TRUE
    ELSE \E i \in 2 .. Len(currentSnake) :
            head.x = currentSnake[i].x /\ head.y = currentSnake[i].y

checkCollisions(head, body, active) ==
    IF IsActive(active, "ghostTime") THEN FALSE
    ELSE IF head.x < 0 \/ head.x >= CANVAS_WIDTH \/ head.y < 0 \/ head.y >= CANVAS_HEIGHT
         THEN TRUE
    ELSE \E i \in 1 .. Len(body) : body[i].x = head.x /\ body[i].y = head.y

\* a slip: a head that leaves at the left or at the top comes back one cell
\* beyond the opposite edge
wrapPosition_BeyondEdge(x, y) ==
    [x |-> IF x < 0 THEN CANVAS_WIDTH
           ELSE IF x >= CANVAS_WIDTH THEN 0 ELSE x,
     y |-> IF y < 0 THEN CANVAS_HEIGHT
           ELSE IF y >= CANVAS_HEIGHT THEN 0 ELSE y]

wrapPosition(x, y) ==
    [x |-> IF x < 0 THEN CANVAS_WIDTH - GRID_SIZE
           ELSE IF x >= CANVAS_WIDTH THEN 0 ELSE x,
     y |-> IF y < 0 THEN CANVAS_HEIGHT - GRID_SIZE
           ELSE IF y >= CANVAS_HEIGHT THEN 0 ELSE y]

\* a slip: up moves the head down the canvas
MoveHead_SignSlip(head, dir) ==
    CASE dir = "up" -> Pos(head.x, head.y + GRID_SIZE)
      [] dir = "down" -> Pos(head.x, head.y + GRID_SIZE)
      [] dir = "left" -> Pos(head.x - GRID_SIZE, head.y)
      [] dir = "right" -> Pos(head.x + GRID_SIZE, head.y)

\* the switch (direction) of update
MoveHead(head, dir) ==
    CASE dir = "up" -> Pos(head.x, head.y - GRID_SIZE)
      [] dir = "down" -> Pos(head.x, head.y + GRID_SIZE)
      [] dir = "left" -> Pos(head.x - GRID_SIZE, head.y)
      [] dir = "right" -> Pos(head.x + GRID_SIZE, head.y)

\* a slip: the moved head is wrapped whatever power-up is active
NextHead_WrapsAlways(prevSnake, dir, active) ==
    LET moved == MoveHead(prevSnake[1], dir) IN wrapPosition(moved.x, moved.y)

\* the head update pushes on the candidate snake
NextHead(prevSnake, dir, active) ==
    LET moved == MoveHead(prevSnake[1], dir) IN
    IF IsActive(active, "ghostTime") THEN wrapPosition(moved.x, moved.y) ELSE moved

Front(s) == SubSeq(s, 1, Len(s) - 1)

\* a slip: the head starts on the centre column, not one cell left of it
initialSnake_HeadAtCentre ==
    LET initialHeadX == ((CANVAS_WIDTH \div 2) \div GRID_SIZE) * GRID_SIZE
        initialHeadY == ((CANVAS_HEIGHT \div 2) \div GRID_SIZE) * GRID_SIZE
    IN <<Pos(initialHeadX, initialHeadY),
         Pos(initialHeadX - GRID_SIZE, initialHeadY),
         Pos(initialHeadX - 2 * GRID_SIZE, initialHeadY)>>

initialSnake ==
    LET initialHeadX == ((CANVAS_WIDTH \div 2 - GRID_SIZE) \div GRID_SIZE) * GRID_SIZE
        initialHeadY == ((CANVAS_HEIGHT \div 2) \div GRID_SIZE) * GRID_SIZE
    IN <<Pos(initialHeadX, initialHeadY),
         Pos(initialHeadX - GRID_SIZE, initialHeadY),
         Pos(initialHeadX - 2 * GRID_SIZE, initialHeadY)>>

PowerUpMessage(type) ==
    CASE type = "ghostTime" -> "Ghost Mode: Pass through walls and yourself!"
      [] type = "magnetHead" -> "Magnet Head: Food is drawn to you!"
      [] type = "doubleScore" -> "Double Score: All food worth 2x points!"
      [] type = "speedBoost" -> "Speed Boost: Lightning fast!"
      [] type = "snailTime" -> "Snail Time: Slow but double points!"
      [] type = "blackoutMode" -> "Blackout Mode: Limited vision!"
      [] type = "goldenApple" -> "Golden Apple! +5 points!"
      [] type = "mysteryBox" -> "Mystery Box revealed!"

\* the kinds a mystery box can reveal
MysteryKinds == {p \in DOMAIN POWERUP_DURATIONS : p # "mysteryBox"}
\* a slip: the mystery box is not resolved
ResolvedKinds_Unresolved(powerUpType) == {powerUpType}

ResolvedKinds(powerUpType) ==
    IF powerUpType = "mysteryBox" THEN MysteryKinds ELSE {powerUpType}

\* applyPowerUpEffect once the mystery box is resolved to kind:
\* what it leaves in (score, activePowerUp, gameMessage); it always clears powerUp
EffectScore(kind, sc) == IF kind = "goldenApple" THEN sc + Points(5) ELSE sc
\* a slip: the golden apple does not return before the timed branch
EffectActive_NoEarlyReturn(kind, active) ==
    Some([type |-> kind, isInstant |-> (POWERUP_DURATIONS[kind] = 0)])

\* a slip: a power-up that is still active is not replaced
EffectActive_FirstWins(kind, active) ==
    IF kind = "goldenApple" \/ active # null THEN active
    ELSE Some([type |-> kind, isInstant |-> (POWERUP_DURATIONS[kind] = 0)])

EffectActive(kind, active) ==
    IF kind = "goldenApple" THEN active
    ELSE Some([type |-> kind, isInstant |-> (POWERUP_DURATIONS[kind] = 0)])
EffectMessage(kind) == Msg(PowerUpMessage(kind))

-----------------------------------------------------------------------------
(* The timers of the scheduling effect (lines 940-1011).  The effect runs   *)
(* after every commit that changed one of its dependencies (isGameStarted,  *)
(* isGameOver, activePowerUp, snake, food, and update, which changes with   *)
(* direction and powerUp): its cleanup clears the three timers and its body *)
(* arms them anew.                                                          *)

\* the unit of time: every period of the effect is a multiple of it
TimeUnit == INITIAL_SNAKE_SPEED_MS \div 2

\* the period of the magnet interval
MAGNET_INTERVAL_MS == 300

\* a slip: snailTime does not slow the game loop
currentSpeed_NoSnail(active) ==
    IF IsActive(active, "speedBoost") THEN INITIAL_SNAKE_SPEED_MS \div 2
    ELSE INITIAL_SNAKE_SPEED_MS

\* the period of the game loop under the active power-up
currentSpeed(active) ==
    IF IsActive(active, "speedBoost") THEN INITIAL_SNAKE_SPEED_MS \div 2
    ELSE IF IsActive(active, "snailTime") THEN (INITIAL_SNAKE_SPEED_MS * 5) \div 2
    ELSE INITIAL_SNAKE_SPEED_MS

\* endTime - now right after applyPowerUpEffect set the power-up
Life(kind) ==
    IF POWERUP_DURATIONS[kind] < MaxLife * TimeUnit
    THEN POWERUP_DURATIONS[kind] ELSE MaxLife * TimeUnit

\* endTime - Date.now() of the active power-up, not below 0
remainingTime == IF timers = null THEN 0 ELSE timers[1].remainingTime

\* a slip: the expiry timer is set anew for the whole duration of the power-up
Armed_WholeDuration(started, over, active, currentFood, remaining) ==
    [gameIntervalId |->
        IF started /\ ~over THEN Some(currentSpeed(active)) ELSE null,
     magnetIntervalId |->
        IF started /\ ~over /\ IsActive(active, "magnetHead") /\ currentFood # null
        THEN Some(MAGNET_INTERVAL_MS) ELSE null,
     powerUpTimerId |->
        IF started /\ ~over /\ active # null /\ ~active[1].isInstant /\ remaining > 0
        THEN Some(Life(active[1].type)) ELSE null,
     remainingTime |-> IF active = null THEN 0 ELSE remaining]

\* the timers the body of the effect leaves: for each the time until it fires
Armed(started, over, active, currentFood, remaining) ==
    [gameIntervalId |->
        IF started /\ ~over THEN Some(currentSpeed(active)) ELSE null,
     magnetIntervalId |->
        IF started /\ ~over /\ IsActive(active, "magnetHead") /\ currentFood # null
        THEN Some(MAGNET_INTERVAL_MS) ELSE null,
     powerUpTimerId |->
        IF started /\ ~over /\ active # null /\ ~active[1].isInstant /\ remaining > 0
        THEN Some(remaining) ELSE null,
     remainingTime |-> IF active = null THEN 0 ELSE remaining]

\* the commit of a handler: the effect runs if a dependency changed (reran),
\* remaining being endTime - now of the power-up that is active after it
Schedule(reran, remaining) ==
    timers' = IF timers = null THEN null
              ELSE IF reran
                   THEN Some(Armed(isGameStarted', isGameOver', activePowerUp', food',
                                   remaining))
                   ELSE timers

\* the time of a timer is up (any time, where time is not measured)
TimerDue(id) == IF timers = null THEN TRUE ELSE timers[1][id] = Some(0)

-----------------------------------------------------------------------------
(* The state after the hook is mounted: the mount effect runs initGame on    *)
(* the useState defaults before the page takes any input.                    *)

Mounted ==
    \E newFoodPos \in generateCollectiblePosition(initialSnake, null, null) :
        /\ snake = initialSnake
        /\ direction = "right"
        /\ score = 0
        /\ isGameOver = FALSE
        /\ isGameStarted = FALSE
        /\ gameMessage = Msg("Press any arrow key to start!")
        /\ changingDirectionRef = FALSE
        /\ powerUp = null
        /\ activePowerUp = null
        /\ food = Some(newFoodPos)
        /\ pendingSpawn = <<>>
        /\ steps = 0

Init == canvas = ReducedCanvas /\ timers = null /\ Mounted

InitSourceCanvas == canvas = SourceCanvas /\ timers = null /\ Mounted

InitStripCanvas == canvas = StripCanvas /\ timers = null /\ Mounted

\* a snapshot four steps into a game on the reduced canvas, from which steps
\* counts anew: after the up key, activatePowerUp('magnetHead'), a tick, the
\* left key, a tick that ate the food left of the head, the down key, the
\* placement of the new food on the bottom row and one magnet step, the snake
\* of four segments is curled in a square with the food on its tail cell,
\* right below the head
InitCurled ==
    LET h == initialSnake[1]
        n == initialSnake[2]
    IN
    /\ canvas = ReducedCanvas
    /\ timers = null
    /\ snake = <<Pos(n.x, h.y - GRID_SIZE), Pos(h.x, h.y - GRID_SIZE), h, n>>
    /\ food = Some(n)
    /\ powerUp = null
    /\ activePowerUp = Some([type |-> "magnetHead", isInstant |-> FALSE])
    /\ direction = "down"
    /\ score = 1
    /\ isGameOver = FALSE
    /\ isGameStarted = TRUE
    /\ gameMessage = Msg(PowerUpMessage("magnetHead"))
    /\ changingDirectionRef = TRUE
    /\ pendingSpawn = <<>>
    /\ steps = 0

\* time is measured, on the canvas of one row: no timer is armed in the idle
\* game
InitTimed ==
    /\ canvas = StripCanvas
    /\ timers = Some([gameIntervalId |-> null, magnetIntervalId |-> null,
                      powerUpTimerId |-> null, remainingTime |-> 0])
    /\ Mounted

-----------------------------------------------------------------------------
(* Commands *)

\* a slip: initGame leaves the active power-up
InitGame_KeepsActivePowerUp ==
    /\ snake' = initialSnake
    /\ direction' = "right"
    /\ score' = 0
    /\ isGameOver' = FALSE
    /\ isGameStarted' = FALSE
    /\ gameMessage' = Msg("Press any arrow key to start!")
    /\ changingDirectionRef' = FALSE
    /\ powerUp' = null
    /\ \E newFoodPos \in generateCollectiblePosition(initialSnake, null, null) :
          food' = Some(newFoodPos)
    /\ UNCHANGED <<activePowerUp, pendingSpawn, steps, canvas>>
    /\ Schedule(TRUE, remainingTime)

\* initGame: a timeout that a tick has set is not cleared by it
InitGame ==
    /\ snake' = initialSnake
    /\ direction' = "right"
    /\ score' = 0
    /\ isGameOver' = FALSE
    /\ isGameStarted' = FALSE
    /\ gameMessage' = Msg("Press any arrow key to start!")
    /\ changingDirectionRef' = FALSE
    /\ powerUp' = null
    /\ activePowerUp' = null
    /\ \E newFoodPos \in generateCollectiblePosition(initialSnake, null, null) :
          food' = Some(newFoodPos)
    /\ UNCHANGED <<pendingSpawn, steps, canvas>>
    /\ Schedule(TRUE, 0)

\* a slip: the left key is not checked against going right
KeyDirection_LeftUnchecked(keyCode, dir) ==
    IF keyCode = LEFT_KEY THEN "left"
    ELSE IF keyCode = UP_KEY /\ dir # "down" THEN "up"
    ELSE IF keyCode = RIGHT_KEY /\ dir # "left" THEN "right"
    ELSE IF keyCode = DOWN_KEY /\ dir # "up" THEN "down"
    ELSE dir

\* a slip: the down key is not checked against going up
KeyDirection_DownUnchecked(keyCode, dir) ==
    IF keyCode = LEFT_KEY /\ dir # "right" THEN "left"
    ELSE IF keyCode = UP_KEY /\ dir # "down" THEN "up"
    ELSE IF keyCode = RIGHT_KEY /\ dir # "left" THEN "right"
    ELSE IF keyCode = DOWN_KEY THEN "down"
    ELSE dir

\* the direction changeDirection sets for keyCode, or the current one
KeyDirection(keyCode, dir) ==
    IF keyCode = LEFT_KEY /\ dir # "right" THEN "left"
    ELSE IF keyCode = UP_KEY /\ dir # "down" THEN "up"
    ELSE IF keyCode = RIGHT_KEY /\ dir # "left" THEN "right"
    ELSE IF keyCode = DOWN_KEY /\ dir # "up" THEN "down"
    ELSE dir

\* a slip: the early return does not look at isGameOver
changeDirection_IgnoresOver(keyCode) ==
    IF changingDirectionRef
    THEN UNCHANGED vars
    ELSE /\ isGameStarted' = TRUE
         /\ gameMessage' = IF ~isGameStarted THEN Msg("") ELSE gameMessage
         /\ changingDirectionRef' = TRUE
         /\ direction' = KeyDirection(keyCode, direction)
         /\ UNCHANGED <<snake, food, powerUp, activePowerUp, score, isGameOver,
                        pendingSpawn, steps, canvas>>
         /\ Schedule(~isGameStarted \/ direction' # direction, remainingTime)

\* a slip: the early return does not look at the latch
changeDirection_IgnoresLatch(keyCode) ==
    IF isGameOver
    THEN UNCHANGED vars
    ELSE /\ isGameStarted' = TRUE
         /\ gameMessage' = IF ~isGameStarted THEN Msg("") ELSE gameMessage
         /\ changingDirectionRef' = TRUE
         /\ direction' = KeyDirection(keyCode, direction)
         /\ UNCHANGED <<snake, food, powerUp, activePowerUp, score, isGameOver,
                        pendingSpawn, steps, canvas>>
         /\ Schedule(~isGameStarted \/ direction' # direction, remainingTime)

\* a slip: a direction input does not start the game
changeDirection_NoAutoStart(keyCode) ==
    IF changingDirectionRef \/ isGameOver
    THEN UNCHANGED vars
    ELSE /\ changingDirectionRef' = TRUE
         /\ direction' = KeyDirection(keyCode, direction)
         /\ UNCHANGED <<snake, food, powerUp, activePowerUp, score, isGameOver,
                        isGameStarted, gameMessage, pendingSpawn, steps, canvas>>
         /\ Schedule(direction' # direction, remainingTime)

changeDirection(keyCode) ==
    IF changingDirectionRef \/ isGameOver
    THEN UNCHANGED vars
    ELSE /\ isGameStarted' = TRUE
         /\ gameMessage' = IF ~isGameStarted THEN Msg("") ELSE gameMessage
         /\ changingDirectionRef' = TRUE
         /\ direction' = KeyDirection(keyCode, direction)
         /\ UNCHANGED <<snake, food, powerUp, activePowerUp, score, isGameOver,
                        pendingSpawn, steps, canvas>>
         /\ Schedule(~isGameStarted \/ direction' # direction, remainingTime)

ChangeDirection == \E keyCode \in ArrowKeys : changeDirection(keyCode)

\* a slip: startGame does not look at isGameOver
startGame_IgnoresOver ==
    IF ~isGameStarted
    THEN /\ isGameStarted' = TRUE
         /\ gameMessage' = Msg("")
         /\ UNCHANGED <<snake, food, powerUp, activePowerUp, direction, score,
                        isGameOver, changingDirectionRef, pendingSpawn, steps, canvas>>
         /\ Schedule(TRUE, remainingTime)
    ELSE UNCHANGED vars

startGame ==
    IF ~isGameStarted /\ ~isGameOver
    THEN /\ isGameStarted' = TRUE
         /\ gameMessage' = Msg("")
         /\ UNCHANGED <<snake, food, powerUp, activePowerUp, direction, score,
                        isGameOver, changingDirectionRef, pendingSpawn, steps, canvas>>
         /\ Schedule(TRUE, remainingTime)
    ELSE UNCHANGED vars

StartGame == startGame

\* applyPowerUpEffect(powerUpType), the mystery box revealing kind
applyPowerUpEffect(powerUpType, kind) ==
    /\ kind \in ResolvedKinds(powerUpType)
    /\ score' = EffectScore(kind, score)
    /\ activePowerUp' = EffectActive(kind, activePowerUp)
    /\ gameMessage' = EffectMessage(kind)
    /\ powerUp' = null

\* activatePowerUp(powerUpType), the exported command
ActivatePowerUp ==
    /\ steps < StepBudget
    /\ steps' = steps + 1
    /\ UNCHANGED <<snake, food, direction, isGameOver, isGameStarted,
                   changingDirectionRef, pendingSpawn, canvas>>
    /\ \E powerUpType \in PowerUpTypes : \E kind \in PowerUpTypes :
          /\ applyPowerUpEffect(powerUpType, kind)
          /\ Schedule(kind # "goldenApple" \/ powerUp # null,
                      IF kind # "goldenApple" THEN Life(kind) ELSE remainingTime)

\* the radius of sight of blackoutMode, in cells
visionRadius == 3

\* a slip: the visible cells are a square around the head
getVisibleCells_Square(snakeHead) ==
    IF activePowerUp = null \/ activePowerUp[1].type # "blackoutMode" THEN {}
    ELSE LET offsets == {o \in (-visionRadius .. visionRadius)
                                  \X (-visionRadius .. visionRadius) : TRUE}
             cells == {Pos(snakeHead.x + o[1] * GRID_SIZE,
                           snakeHead.y + o[2] * GRID_SIZE) : o \in offsets}
         IN {c \in cells : c.x >= 0 /\ c.x < CANVAS_WIDTH
                              /\ c.y >= 0 /\ c.y < CANVAS_HEIGHT}

\* getVisibleCells(snakeHead): the set the renderer reads ("x,y" strings in
\* the source, cells here)
getVisibleCells(snakeHead) ==
    IF activePowerUp = null \/ activePowerUp[1].type # "blackoutMode" THEN {}
    ELSE LET offsets == {o \in (-visionRadius .. visionRadius)
                                  \X (-visionRadius .. visionRadius) :
                            \* Math.sqrt(dx * dx + dy * dy) <= visionRadius
                            o[1] * o[1] + o[2] * o[2] <= visionRadius * visionRadius}
             cells == {Pos(snakeHead.x + o[1] * GRID_SIZE,
                           snakeHead.y + o[2] * GRID_SIZE) : o \in offsets}
         IN {c \in cells : c.x >= 0 /\ c.x < CANVAS_WIDTH
                              /\ c.y >= 0 /\ c.y < CANVAS_HEIGHT}

-----------------------------------------------------------------------------
(* The scheduler: the effect of lines 940-1011 arms the game loop, the      *)
(* magnet interval and the expiry timer while the game is running, and its  *)
(* cleanup clears them when the game stops.                                 *)

\* a slip: the effect arms the timers whenever the game is not over
Running_NotOver == ~isGameOver

Running == isGameStarted /\ ~isGameOver

\* the points a food is worth under the active power-up
pointsToAdd(active) ==
    IF IsActive(active, "doubleScore") \/ IsActive(active, "snailTime")
    THEN Points(2) ELSE 1

\* a slip: a power-up pops the tail at line 821 and again at line 826
PopTail_PopsTwice(pushed, eatsFood, eatsPowerUp) ==
    IF eatsFood THEN pushed
    ELSE IF eatsPowerUp THEN Front(Front(pushed))
    ELSE Front(pushed)

\* a slip: a power-up keeps the tail as a food does
PopTail_PowerUpGrows(pushed, eatsFood, eatsPowerUp) ==
    IF eatsFood THEN pushed
    ELSE IF eatsPowerUp THEN pushed
    ELSE Front(pushed)

\* what update leaves of the pushed snake: a food keeps the tail, a power-up
\* pops it (line 821), and so does a tick that ate nothing (line 826)
PopTail(pushed, eatsFood, eatsPowerUp) ==
    IF eatsFood THEN pushed
    ELSE IF eatsPowerUp THEN Front(pushed)
    ELSE Front(pushed)

\* a slip: the collision check runs on the snake before the head is moved
update_CollisionBeforeMove ==
    LET head == NextHead(snake, direction, activePowerUp)
        eatsFood == food # null /\ head.x = food[1].x /\ head.y = food[1].y
        eatsPowerUp == ~eatsFood /\ powerUp # null
                          /\ head.x = powerUp[1].x /\ head.y = powerUp[1].y
        collectibleEaten == eatsFood \/ eatsPowerUp
        newSnake == PopTail(<<head>> \o snake, eatsFood, eatsPowerUp)
        collides == checkCollision(snake, activePowerUp)
    IN
    /\ changingDirectionRef' = FALSE
    /\ UNCHANGED direction
    /\ IF isGameOver
       THEN UNCHANGED <<snake, food, powerUp, activePowerUp, score, isGameOver,
                        isGameStarted, gameMessage, pendingSpawn, timers>>
       ELSE
        /\ food' = IF eatsFood THEN null ELSE food
        /\ powerUp' = IF eatsPowerUp THEN null ELSE powerUp
        /\ pendingSpawn' = IF collectibleEaten THEN Append(pendingSpawn, newSnake)
                           ELSE pendingSpawn
        /\ isGameOver' = collides
        /\ isGameStarted' = IF collides THEN FALSE ELSE isGameStarted
        /\ snake' = IF collides THEN snake ELSE newSnake
        /\ \E kind \in PowerUpTypes :
            /\ IF eatsPowerUp
               THEN kind \in ResolvedKinds(powerUp[1].type)
               ELSE kind = "ghostTime"
            /\ score' = IF eatsFood THEN score + pointsToAdd(activePowerUp)
                        ELSE IF eatsPowerUp THEN EffectScore(kind, score)
                        ELSE score
            /\ activePowerUp' = IF eatsPowerUp THEN EffectActive(kind, activePowerUp)
                                ELSE activePowerUp
            /\ gameMessage' = IF collides THEN GameOverMsg(score')
                              ELSE IF eatsPowerUp THEN EffectMessage(kind)
                              ELSE gameMessage
            /\ Schedule(TRUE, IF eatsPowerUp /\ kind # "goldenApple"
                              THEN Life(kind) ELSE remainingTime)

\* a slip: a collision sets isGameOver and leaves isGameStarted
update_KeepsStarted ==
    LET head == NextHead(snake, direction, activePowerUp)
        eatsFood == food # null /\ head.x = food[1].x /\ head.y = food[1].y
        eatsPowerUp == ~eatsFood /\ powerUp # null
                          /\ head.x = powerUp[1].x /\ head.y = powerUp[1].y
        collectibleEaten == eatsFood \/ eatsPowerUp
        newSnake == PopTail(<<head>> \o snake, eatsFood, eatsPowerUp)
        collides == checkCollision(newSnake, activePowerUp)
    IN
    /\ changingDirectionRef' = FALSE
    /\ UNCHANGED direction
    /\ IF isGameOver
       THEN UNCHANGED <<snake, food, powerUp, activePowerUp, score, isGameOver,
                        isGameStarted, gameMessage, pendingSpawn, timers>>
       ELSE
        /\ food' = IF eatsFood THEN null ELSE food
        /\ powerUp' = IF eatsPowerUp THEN null ELSE powerUp
        /\ pendingSpawn' = IF collectibleEaten THEN Append(pendingSpawn, newSnake)
                           ELSE pendingSpawn
        /\ isGameOver' = collides
        /\ isGameStarted' = isGameStarted
        /\ snake' = IF collides THEN snake ELSE newSnake
        /\ \E kind \in PowerUpTypes :
            /\ IF eatsPowerUp
               THEN kind \in ResolvedKinds(powerUp[1].type)
               ELSE kind = "ghostTime"
            /\ score' = IF eatsFood THEN score + pointsToAdd(activePowerUp)
                        ELSE IF eatsPowerUp THEN EffectScore(kind, score)
                        ELSE score
            /\ activePowerUp' = IF eatsPowerUp THEN EffectActive(kind, activePowerUp)
                                ELSE activePowerUp
            /\ gameMessage' = IF collides THEN GameOverMsg(score')
                              ELSE IF eatsPowerUp THEN EffectMessage(kind)
                              ELSE gameMessage
            /\ Schedule(TRUE, IF eatsPowerUp /\ kind # "goldenApple"
                              THEN Life(kind) ELSE remainingTime)

\* a slip: a colliding tick commits the candidate snake
update_CommitsCollided ==
    LET head == NextHead(snake, direction, activePowerUp)
        eatsFood == food # null /\ head.x = food[1].x /\ head.y = food[1].y
        eatsPowerUp == ~eatsFood /\ powerUp # null
                          /\ head.x = powerUp[1].x /\ head.y = powerUp[1].y
        collectibleEaten == eatsFood \/ eatsPowerUp
        newSnake == PopTail(<<head>> \o snake, eatsFood, eatsPowerUp)
        collides == checkCollision(newSnake, activePowerUp)
    IN
    /\ changingDirectionRef' = FALSE
    /\ UNCHANGED direction
    /\ IF isGameOver
       THEN UNCHANGED <<snake, food, powerUp, activePowerUp, score, isGameOver,
                        isGameStarted, gameMessage, pendingSpawn, timers>>
       ELSE
        /\ food' = IF eatsFood THEN null ELSE food
        /\ powerUp' = IF eatsPowerUp THEN null ELSE powerUp
        /\ pendingSpawn' = IF collectibleEaten THEN Append(pendingSpawn, newSnake)
                           ELSE pendingSpawn
        /\ isGameOver' = collides
        /\ isGameStarted' = IF collides THEN FALSE ELSE isGameStarted
        /\ snake' = newSnake
        /\ \E kind \in PowerUpTypes :
            /\ IF eatsPowerUp
               THEN kind \in ResolvedKinds(powerUp[1].type)
               ELSE kind = "ghostTime"
            /\ score' = IF eatsFood THEN score + pointsToAdd(activePowerUp)
                        ELSE IF eatsPowerUp THEN EffectScore(kind, score)
                        ELSE score
            /\ activePowerUp' = IF eatsPowerUp THEN EffectActive(kind, activePowerUp)
                                ELSE activePowerUp
            /\ gameMessage' = IF collides THEN GameOverMsg(score')
                              ELSE IF eatsPowerUp THEN EffectMessage(kind)
                              ELSE gameMessage
            /\ Schedule(TRUE, IF eatsPowerUp /\ kind # "goldenApple"
                              THEN Life(kind) ELSE remainingTime)

\* a slip: the game-over message shows the score from before the tick
update_MessageBeforePoints ==
    LET head == NextHead(snake, direction, activePowerUp)
        eatsFood == food # null /\ head.x = food[1].x /\ head.y = food[1].y
        eatsPowerUp == ~eatsFood /\ powerUp # null
                          /\ head.x = powerUp[1].x /\ head.y = powerUp[1].y
        collectibleEaten == eatsFood \/ eatsPowerUp
        newSnake == PopTail(<<head>> \o snake, eatsFood, eatsPowerUp)
        collides == checkCollision(newSnake, activePowerUp)
    IN
    /\ changingDirectionRef' = FALSE
    /\ UNCHANGED direction
    /\ IF isGameOver
       THEN UNCHANGED <<snake, food, powerUp, activePowerUp, score, isGameOver,
                        isGameStarted, gameMessage, pendingSpawn, timers>>
       ELSE
        /\ food' = IF eatsFood THEN null ELSE food
        /\ powerUp' = IF eatsPowerUp THEN null ELSE powerUp
        /\ pendingSpawn' = IF collectibleEaten THEN Append(pendingSpawn, newSnake)
                           ELSE pendingSpawn
        /\ isGameOver' = collides
        /\ isGameStarted' = IF collides THEN FALSE ELSE isGameStarted
        /\ snake' = IF collides THEN snake ELSE newSnake
        /\ \E kind \in PowerUpTypes :
            /\ IF eatsPowerUp
               THEN kind \in ResolvedKinds(powerUp[1].type)
               ELSE kind = "ghostTime"
            /\ score' = IF eatsFood THEN score + pointsToAdd(activePowerUp)
                        ELSE IF eatsPowerUp THEN EffectScore(kind, score)
                        ELSE score
            /\ activePowerUp' = IF eatsPowerUp THEN EffectActive(kind, activePowerUp)
                                ELSE activePowerUp
            /\ gameMessage' = IF collides THEN GameOverMsg(score)
                              ELSE IF eatsPowerUp THEN EffectMessage(kind)
                              ELSE gameMessage
            /\ Schedule(TRUE, IF eatsPowerUp /\ kind # "goldenApple"
                              THEN Life(kind) ELSE remainingTime)

\* update: one tick of the game loop
update ==
    LET head == NextHead(snake, direction, activePowerUp)
        eatsFood == food # null /\ head.x = food[1].x /\ head.y = food[1].y
        eatsPowerUp == ~eatsFood /\ powerUp # null
                          /\ head.x = powerUp[1].x /\ head.y = powerUp[1].y
        collectibleEaten == eatsFood \/ eatsPowerUp
        newSnake == PopTail(<<head>> \o snake, eatsFood, eatsPowerUp)
        collides == checkCollision(newSnake, activePowerUp)
    IN
    /\ changingDirectionRef' = FALSE
    /\ UNCHANGED direction
    /\ IF isGameOver
       THEN UNCHANGED <<snake, food, powerUp, activePowerUp, score, isGameOver,
                        isGameStarted, gameMessage, pendingSpawn, timers>>
       ELSE
        /\ food' = IF eatsFood THEN null ELSE food
        /\ powerUp' = IF eatsPowerUp THEN null ELSE powerUp
        /\ pendingSpawn' = IF collectibleEaten THEN Append(pendingSpawn, newSnake)
                           ELSE pendingSpawn
        /\ isGameOver' = collides
        /\ isGameStarted' = IF collides THEN FALSE ELSE isGameStarted
        /\ snake' = IF collides THEN snake ELSE newSnake
        /\ \E kind \in PowerUpTypes :
            /\ IF eatsPowerUp
               THEN kind \in ResolvedKinds(powerUp[1].type)
               ELSE kind = "ghostTime"
            /\ score' = IF eatsFood THEN score + pointsToAdd(activePowerUp)
                        ELSE IF eatsPowerUp THEN EffectScore(kind, score)
                        ELSE score
            /\ activePowerUp' = IF eatsPowerUp THEN EffectActive(kind, activePowerUp)
                                ELSE activePowerUp
            /\ gameMessage' = IF collides THEN GameOverMsg(score')
                              ELSE IF eatsPowerUp THEN EffectMessage(kind)
                              ELSE gameMessage
            /\ Schedule(TRUE, IF eatsPowerUp /\ kind # "goldenApple"
                              THEN Life(kind) ELSE remainingTime)

\* the game loop fires update while the game is running.  A spawn that the
\* previous tick deferred (setTimeout 0) is due before the interval's next tick.
Tick ==
    /\ Running
    /\ pendingSpawn = <<>>
    /\ steps < StepBudget
    /\ TimerDue("gameIntervalId")
    /\ steps' = steps + 1
    /\ update
    /\ UNCHANGED canvas

\* a slip: the collectibles on the grid are not cleared first
generateCollectible_NoClear(currentSnake) ==
    \E randomType \in PowerUpTypes, shouldSpawnPowerUp \in BOOLEAN :
      \E pos \in generateCollectiblePosition(currentSnake, null, null) :
        /\ shouldSpawnPowerUp => POWERUP_SPAWN_CHANCES[randomType] > 0
        /\ ~shouldSpawnPowerUp => POWERUP_SPAWN_CHANCES[randomType] < 100
        /\ IF shouldSpawnPowerUp
           THEN /\ powerUp' = Some([x |-> pos.x, y |-> pos.y, type |-> randomType,
                                    isInstant |-> (POWERUP_DURATIONS[randomType] = 0)])
                /\ food' = food
           ELSE /\ food' = Some(pos)
                /\ powerUp' = powerUp

\* a slip: the collectibles are cleared and none is placed
generateCollectible_PlacesNothing(currentSnake) ==
    /\ food' = null
    /\ powerUp' = null

\* generateCollectible(currentSnake): the spawn a tick deferred
generateCollectible(currentSnake) ==
    \E randomType \in PowerUpTypes, shouldSpawnPowerUp \in BOOLEAN :
      \E pos \in generateCollectiblePosition(currentSnake, null, null) :
        /\ shouldSpawnPowerUp => POWERUP_SPAWN_CHANCES[randomType] > 0
        /\ ~shouldSpawnPowerUp => POWERUP_SPAWN_CHANCES[randomType] < 100
        /\ IF shouldSpawnPowerUp
           THEN /\ powerUp' = Some([x |-> pos.x, y |-> pos.y, type |-> randomType,
                                    isInstant |-> (POWERUP_DURATIONS[randomType] = 0)])
                /\ food' = null
           ELSE /\ food' = Some(pos)
                /\ powerUp' = null

Spawn ==
    /\ pendingSpawn # <<>>
    /\ generateCollectible(Head(pendingSpawn))
    /\ pendingSpawn' = Tail(pendingSpawn)
    /\ UNCHANGED <<snake, activePowerUp, direction, score, isGameOver,
                   isGameStarted, gameMessage, changingDirectionRef, steps, canvas>>
    /\ Schedule(TRUE, remainingTime)

\* a slip: the food moves along the axis of the larger offset first
magnetStep_LargerOffsetFirst(currentFood, head) ==
    LET dx == head.x - currentFood.x
        dy == head.y - currentFood.y
        Abs(n) == IF n < 0 THEN -n ELSE n
        alongX == Abs(dx) >= GRID_SIZE /\ Abs(dx) >= Abs(dy)
        newX == IF alongX
                THEN currentFood.x + (IF dx > 0 THEN GRID_SIZE ELSE -GRID_SIZE)
                ELSE currentFood.x
        newY == IF ~alongX /\ Abs(dy) >= GRID_SIZE
                THEN currentFood.y + (IF dy > 0 THEN GRID_SIZE ELSE -GRID_SIZE)
                ELSE currentFood.y
    IN Pos(newX, newY)

\* the magnet interval callback: the food steps toward the head
magnetStep(currentFood, head) ==
    LET dx == head.x - currentFood.x
        dy == head.y - currentFood.y
        Abs(n) == IF n < 0 THEN -n ELSE n
        Min(a, b) == IF a < b THEN a ELSE b
        Max(a, b) == IF a > b THEN a ELSE b
        newX == IF Abs(dx) >= GRID_SIZE
                THEN currentFood.x + (IF dx > 0 THEN GRID_SIZE ELSE -GRID_SIZE)
                ELSE currentFood.x
        newY == IF Abs(dx) < GRID_SIZE /\ Abs(dy) >= GRID_SIZE
                THEN currentFood.y + (IF dy > 0 THEN GRID_SIZE ELSE -GRID_SIZE)
                ELSE currentFood.y
    IN Pos(Max(0, Min(CANVAS_WIDTH - GRID_SIZE, newX)),
           Max(0, Min(CANVAS_HEIGHT - GRID_SIZE, newY)))

Magnet ==
    /\ Running
    /\ pendingSpawn = <<>>
    /\ IsActive(activePowerUp, "magnetHead")
    /\ food # null
    /\ TimerDue("magnetIntervalId")
    /\ food' = IF Len(snake) = 0 THEN food ELSE Some(magnetStep(food[1], snake[1]))
    /\ UNCHANGED <<snake, powerUp, activePowerUp, direction, score, isGameOver,
                   isGameStarted, gameMessage, changingDirectionRef, pendingSpawn,
                   steps, canvas>>
    /\ Schedule(TRUE, remainingTime)

\* a slip: the expiry takes the spawned power-up off the grid too
Expire_ClearsSpawned ==
    /\ Running
    /\ activePowerUp # null
    /\ ~activePowerUp[1].isInstant
    /\ activePowerUp' = null
    /\ powerUp' = null
    /\ \/ /\ TimerDue("powerUpTimerId")
          /\ gameMessage' = Msg(activePowerUp[1].type \o " expired!")
       \/ /\ IF timers = null THEN TRUE ELSE timers[1].powerUpTimerId = null
          /\ gameMessage' = gameMessage
    /\ UNCHANGED <<snake, food, direction, score, isGameOver,
                   isGameStarted, changingDirectionRef, pendingSpawn, steps, canvas>>
    /\ Schedule(TRUE, 0)

\* the expiry of the active power-up: the timer callback, or the effect
\* finding the end time already past (which sets no message and no timer)
Expire ==
    /\ Running
    /\ activePowerUp # null
    /\ ~activePowerUp[1].isInstant
    /\ activePowerUp' = null
    /\ \/ /\ TimerDue("powerUpTimerId")
          /\ gameMessage' = Msg(activePowerUp[1].type \o " expired!")
       \/ /\ IF timers = null THEN TRUE ELSE timers[1].powerUpTimerId = null
          /\ gameMessage' = gameMessage
    /\ UNCHANGED <<snake, food, powerUp, direction, score, isGameOver,
                   isGameStarted, changingDirectionRef, pendingSpawn, steps, canvas>>
    /\ Schedule(TRUE, 0)

\* the effect found the end time of the active power-up past: it has set no
\* expiry timer and clears the power-up right away
EndTimePast ==
    /\ Running
    /\ activePowerUp # null
    /\ ~activePowerUp[1].isInstant
    /\ timers[1].powerUpTimerId = null

\* a timer one unit of time later
Sooner(id) == IF id = null THEN null ELSE Some(id[1] - TimeUnit)

\* one unit of time passes with no handler running: no timer is due, and the
\* timeout of a deferred placement (0 ms) and the effect's own clearing of a
\* power-up come first
Advance ==
    /\ timers # null
    /\ pendingSpawn = <<>>
    /\ ~EndTimePast
    /\ timers[1].gameIntervalId # Some(0)
    /\ timers[1].magnetIntervalId # Some(0)
    /\ timers[1].powerUpTimerId # Some(0)
    /\ timers' = Some([gameIntervalId |-> Sooner(timers[1].gameIntervalId),
                       magnetIntervalId |-> Sooner(timers[1].magnetIntervalId),
                       powerUpTimerId |-> Sooner(timers[1].powerUpTimerId),
                       remainingTime |-> IF timers[1].remainingTime > 0
                                         THEN timers[1].remainingTime - TimeUnit
                                         ELSE 0])
    /\ UNCHANGED <<snake, food, powerUp, activePowerUp, direction, score, isGameOver,
                   isGameStarted, gameMessage, changingDirectionRef, pendingSpawn,
                   steps, canvas>>

Next ==
    \/ InitGame
    \/ ChangeDirection
    \/ StartGame
    \/ ActivatePowerUp
    \/ Tick
    \/ Spawn
    \/ Magnet
    \/ Expire

Spec == Init /\ [][Next]_vars

SpecSourceCanvas == InitSourceCanvas /\ [][Next]_vars

SpecStripCanvas == InitStripCanvas /\ [][Next]_vars

SpecCurled == InitCurled /\ [][Next]_vars

\* the PLAY AGAIN button of GameUI, shown while the game is over: one event
\* handler calls initGame() and then startGame(), both closures of the render
\* that showed the button; their updates are committed together, and
\* startGame tests the isGameStarted and isGameOver of that render
PlayAgain ==
    /\ isGameOver
    /\ snake' = initialSnake
    /\ direction' = "right"
    /\ score' = 0
    /\ isGameOver' = FALSE
    /\ isGameStarted' = (~isGameStarted /\ ~isGameOver)
    /\ gameMessage' = IF ~isGameStarted /\ ~isGameOver
                      THEN Msg("") ELSE Msg("Press any arrow key to start!")
    /\ changingDirectionRef' = FALSE
    /\ powerUp' = null
    /\ activePowerUp' = null
    /\ \E newFoodPos \in generateCollectiblePosition(initialSnake, null, null) :
          food' = Some(newFoodPos)
    /\ UNCHANGED <<pendingSpawn, steps, canvas>>
    /\ Schedule(TRUE, 0)

\* the hook with the buttons of GameUI: on the reduced canvas, where a game
\* can end within the bounds
NextUI ==
    \/ Next
    \/ PlayAgain

SpecUI == Init /\ [][NextUI]_vars

\* time measured.  The magnet interval is armed by Armed and cleared by the
\* next run of the effect; its time is never up (MagnetNeverDue), so its
\* callback is no step of NextTimed
NextTimed ==
    \/ InitGame
    \/ ChangeDirection
    \/ StartGame
    \/ ActivatePowerUp
    \/ Tick
    \/ Spawn
    \/ Expire
    \/ Advance

SpecTimed == InitTimed /\ [][NextTimed]_vars

\* in SpecTimed the time of the magnet interval is never up
MagnetNeverDue == timers # null => timers[1].magnetIntervalId # Some(0)

\* the timeout a tick sets for the spawn is never cleared, so it fires
SpecFair == Spec /\ WF_vars(Spawn)

-----------------------------------------------------------------------------
(* What a tick is about to do, read off the state before it *)

\* the head the tick pushes and the collectible it lands on
TickHead == NextHead(snake, direction, activePowerUp)
LandsOnFood == food # null /\ TickHead.x = food[1].x /\ TickHead.y = food[1].y
LandsOnPowerUp == /\ ~LandsOnFood
                  /\ powerUp # null
                  /\ TickHead.x = powerUp[1].x /\ TickHead.y = powerUp[1].y
\* the candidate snake the tick hands to the collision check
TickCandidate == PopTail(<<TickHead>> \o snake, LandsOnFood, LandsOnPowerUp)

\* the displacement of one grid unit in a direction
StepX(dir) == IF dir = "left" THEN -GRID_SIZE ELSE IF dir = "right" THEN GRID_SIZE ELSE 0
StepY(dir) == IF dir = "up" THEN -GRID_SIZE ELSE IF dir = "down" THEN GRID_SIZE ELSE 0

Opposite(dir) ==
    CASE dir = "up" -> "down" [] dir = "down" -> "up"
      [] dir = "left" -> "right" [] dir = "right" -> "left"
DirectionOfKey(keyCode) ==
    CASE keyCode = LEFT_KEY -> "left" [] keyCode = UP_KEY -> "up"
      [] keyCode = RIGHT_KEY -> "right" [] keyCode = DOWN_KEY -> "down"

Idle == ~isGameStarted /\ ~isGameOver

\* the snake after k ticks to the right from the initial position that ate nothing
MovedRight(k) ==
    [i \in 1 .. 3 |-> Pos(initialSnake[i].x + k * GRID_SIZE, initialSnake[i].y)]

-----------------------------------------------------------------------------
(* C1 *)

\* C1 as stated: every tick whose new head lands on no collectible leaves a
\* snake of the same length, whose head is the old head moved by one grid unit
\* in the current direction and whose other segments are the old snake without
\* its last segment.
C1_EveryTickMoves ==
    [][(Tick /\ ~LandsOnFood /\ ~LandsOnPowerUp)
         => /\ Len(snake') = Len(snake)
            /\ snake'[1].x = snake[1].x + StepX(direction)
            /\ snake'[1].y = snake[1].y + StepY(direction)
            /\ Tail(snake') = Front(snake)]_vars

\* the old head moved by one grid unit in the current direction
C1_Moved == Pos(snake[1].x + StepX(direction), snake[1].y + StepY(direction))
\* without ghostTime: the moved head is off the canvas or on a segment that stays
C1_Collides ==
    /\ ~IsActive(activePowerUp, "ghostTime")
    /\ \/ C1_Moved.x < 0 \/ C1_Moved.x >= CANVAS_WIDTH
       \/ C1_Moved.y < 0 \/ C1_Moved.y >= CANVAS_HEIGHT
       \/ \E i \in 1 .. Len(snake) - 1 : snake[i] = C1_Moved

\* C1, amended: a tick whose new head lands on no collectible and that does
\* not collide leaves a snake of the same length, whose head is the old head
\* moved by one grid unit in the current direction, taken modulo the canvas
\* while ghostTime is active, and whose other segments are the old snake
\* without its last segment; a tick that collides (no ghostTime, the moved head
\* off the canvas or on a segment that stays) leaves the snake as it was.
C1_TickMoves ==
    [][(Tick /\ ~LandsOnFood /\ ~LandsOnPowerUp)
         => IF C1_Collides
            THEN snake' = snake
            ELSE /\ Len(snake') = Len(snake)
                 /\ snake'[1] =
                      IF IsActive(activePowerUp, "ghostTime")
                      THEN Pos(C1_Moved.x % CANVAS_WIDTH, C1_Moved.y % CANVAS_HEIGHT)
                      ELSE C1_Moved
                 /\ Tail(snake') = Front(snake)]_vars

\* one tick to the right from the initial position, the food not on the way
C1_Witness ==
    /\ steps = 1
    /\ snake = MovedRight(1)
    /\ food # null
    /\ ~isGameOver

-----------------------------------------------------------------------------
(* C2 *)

\* C2: a tick whose new head lands on the food grows the snake by one segment
\* and adds 1 point to the score, 2 points under doubleScore or snailTime.
C2_FoodGrowsAndScores ==
    [][(Tick /\ LandsOnFood)
         => /\ Len(snake') = Len(snake) + 1
            /\ score' = score + (IF \/ IsActive(activePowerUp, "doubleScore")
                                    \/ IsActive(activePowerUp, "snailTime")
                                 THEN Points(2) ELSE Points(1))]_vars

-----------------------------------------------------------------------------
(* C3 *)

\* C3: a tick whose new head lands on the spawned power-up leaves the snake
\* as long as it was, whatever the kind of the power-up.
C3_PowerUpKeepsLength ==
    [][(Tick /\ LandsOnPowerUp) => Len(snake') = Len(snake)]_vars

\* a tick upwards ate the food, a golden apple was spawned left of the head
\* and the tick to the left picked it up: four segments before and after
C3_Witness ==
    LET h == initialSnake[1] IN
    /\ steps = 2
    /\ snake = <<Pos(h.x - GRID_SIZE, h.y - GRID_SIZE), Pos(h.x, h.y - GRID_SIZE),
                 h, initialSnake[2]>>
    /\ pendingSpawn # <<>>
    /\ gameMessage = Msg(PowerUpMessage("goldenApple"))
    /\ score = 1 + Points(5)

-----------------------------------------------------------------------------
(* C4 *)

\* C4: a tick whose candidate snake collides ends the game (over, not started)
\* and keeps the snake, and once the game is over the score does not change
\* until initGame is called.
C4_CollisionLocksScore ==
    [][/\ (Tick /\ checkCollision(TickCandidate, activePowerUp))
            => isGameOver' /\ ~isGameStarted' /\ snake' = snake
       /\ (isGameOver /\ ~InitGame) => score' = score]_vars

-----------------------------------------------------------------------------
(* C5 *)

\* the cells of the canvas and the ring of cells around it
BorderedCells ==
    {Pos(i * GRID_SIZE, j * GRID_SIZE) : i \in -1 .. (CANVAS_WIDTH \div GRID_SIZE),
                                         j \in -1 .. (CANVAS_HEIGHT \div GRID_SIZE)}

\* candidate snakes: any head, in or out of the canvas, on or off the body
CandidateSnakes == {<<h>> \o snake : h \in BorderedCells}

\* C5: while ghostTime is active, checkCollision and checkCollisions are
\* false for every candidate snake, and no tick ends the game.
C5_GhostNeverCollides ==
    /\ [](IsActive(activePowerUp, "ghostTime")
            => \A c \in CandidateSnakes :
                  /\ ~checkCollision(c, activePowerUp)
                  /\ ~checkCollisions(c[1], Tail(c), activePowerUp))
    /\ [][(Tick /\ IsActive(activePowerUp, "ghostTime")) => ~isGameOver']_vars

\* under ghostTime a tick downwards left the canvas at the bottom edge and
\* the head came back in at the top, above its neck
C5_Witness ==
    /\ IsActive(activePowerUp, "ghostTime")
    /\ steps = 2
    /\ direction = "down"
    /\ ~changingDirectionRef
    /\ snake[1].x = snake[2].x
    /\ snake[1].y < snake[2].y
    /\ ~isGameOver

-----------------------------------------------------------------------------
(* C6 *)

\* C6: while the game is running and the latch is clear, changeDirection with
\* the key of the opposite direction leaves the direction, and with the key of
\* a perpendicular direction sets it.
C6_ReversalLaw ==
    [][\A keyCode \in ArrowKeys :
          (Running /\ ~changingDirectionRef /\ changeDirection(keyCode))
            => direction' = IF DirectionOfKey(keyCode) = Opposite(direction)
                            THEN direction
                            ELSE DirectionOfKey(keyCode)]_vars

\* running, one tick to the right, then the up key was taken
C6_Witness ==
    /\ steps = 1
    /\ snake = MovedRight(1)
    /\ Running
    /\ changingDirectionRef
    /\ direction = "up"

-----------------------------------------------------------------------------
(* C7 *)

\* C7 as stated: a request for the reverse of the current direction, or any
\* request made while the game is not running (idle or over), changes none of
\* direction, lifecycle flags, message, snake and score.
C7_InvalidRequestIsNoOp ==
    [][\A keyCode \in ArrowKeys :
          (/\ changeDirection(keyCode)
           /\ DirectionOfKey(keyCode) = Opposite(direction) \/ ~Running)
            => UNCHANGED <<direction, isGameStarted, isGameOver, gameMessage,
                           snake, score>>]_vars

\* C7, amended: a request for the reverse of the current direction made while
\* the game is running, or any request made while the game is over, changes
\* none of direction, lifecycle flags, message, snake and score.
C7_RejectedRequestIsNoOp ==
    [][\A keyCode \in ArrowKeys :
          (/\ changeDirection(keyCode)
           /\ \/ Running /\ DirectionOfKey(keyCode) = Opposite(direction)
              \/ isGameOver)
            => UNCHANGED <<direction, isGameStarted, isGameOver, gameMessage,
                           snake, score>>]_vars

\* running after one tick upwards, a key was taken and the direction is still up
C7_Witness ==
    /\ steps = 1
    /\ snake[1] = Pos(initialSnake[1].x, initialSnake[1].y - GRID_SIZE)
    /\ Running
    /\ changingDirectionRef
    /\ direction = "up"

-----------------------------------------------------------------------------
(* C8 *)

\* C8: the direction changes only with the latch clear, and that sets the
\* latch; with the latch set changeDirection leaves the direction; only a
\* tick or initGame clears the latch, and each of them leaves it clear.
C8_OneChangePerTick ==
    [][/\ (direction' # direction /\ ~InitGame)
            => ~changingDirectionRef /\ changingDirectionRef'
       /\ \A keyCode \in ArrowKeys :
            changeDirection(keyCode)
              => /\ changingDirectionRef => direction' = direction
                 /\ (~changingDirectionRef /\ ~isGameOver) => changingDirectionRef'
       /\ (changingDirectionRef /\ ~changingDirectionRef') => Tick \/ InitGame
       /\ changingDirectionRef' => ~(Tick \/ InitGame)]_vars

\* the up key was taken and the tick that followed cleared the latch
C8_Witness ==
    /\ steps = 1
    /\ snake[1] = Pos(initialSnake[1].x, initialSnake[1].y - GRID_SIZE)
    /\ Running
    /\ ~changingDirectionRef
    /\ direction = "up"

-----------------------------------------------------------------------------
(* C9 *)

\* C9 as stated: from idle, startGame and a direction input that is not the
\* reverse of the current direction start the game, and the reverse of the
\* current direction does not.
C9_ValidInputStarts ==
    [][/\ (Idle /\ startGame) => Running'
       /\ \A keyCode \in ArrowKeys :
            (Idle /\ changeDirection(keyCode))
              => IF DirectionOfKey(keyCode) = Opposite(direction)
                 THEN ~isGameStarted'
                 ELSE Running']_vars

\* C9, amended: from idle, startGame and every direction input start the
\* game; the reverse of the current direction starts it too and leaves the
\* direction as it was.
C9_AnyInputStarts ==
    [][/\ (Idle /\ startGame) => Running'
       /\ \A keyCode \in ArrowKeys :
            (Idle /\ changeDirection(keyCode))
              => /\ Running'
                 /\ DirectionOfKey(keyCode) = Opposite(direction)
                      => direction' = direction]_vars

\* started from idle by a key that left the direction: the latch is set, no
\* tick has run
C9_Witness ==
    /\ steps = 0
    /\ Running
    /\ changingDirectionRef
    /\ direction = "right"
    /\ gameMessage = Msg("")

-----------------------------------------------------------------------------
(* C10 *)

\* C10: once the game is over, update, startGame and changeDirection leave
\* snake, score, direction and the lifecycle flags, and only initGame ends
\* the over state.
C10_OverIsTerminal ==
    [][isGameOver
         => /\ (update \/ startGame \/ ChangeDirection)
                 => UNCHANGED <<snake, score, direction, isGameStarted, isGameOver>>
            /\ ~isGameOver' => InitGame]_vars

\* the first tick ran into the wall
C10_Witness ==
    /\ steps = 1
    /\ isGameOver
    /\ ~isGameStarted
    /\ snake = initialSnake
    /\ gameMessage = GameOverMsg(0)

-----------------------------------------------------------------------------
(* C11 *)

\* the snapshot initGame leaves, whatever the food cell
IdleSnapshot ==
    /\ snake = initialSnake
    /\ Len(snake) = 3
    /\ direction = "right"
    /\ score = 0
    /\ ~isGameStarted
    /\ ~isGameOver
    /\ powerUp = null
    /\ activePowerUp = null
    /\ food # null

\* C11: initGame from any state leaves the idle snapshot (initial snake of 3
\* segments, direction right, score 0, not started, not over, no spawned and
\* no active power-up, a food present), and a second initGame right after it
\* leaves the same snapshot, the food cell apart.
C11_InitGameResets ==
    [][InitGame
         => /\ IdleSnapshot'
            /\ IdleSnapshot
                 => UNCHANGED <<snake, direction, score, isGameStarted, isGameOver,
                                powerUp, activePowerUp>>]_vars

\* initGame was called in a running game, right after the second tick ate
\* a collectible
C11_Witness ==
    /\ IdleSnapshot
    /\ steps = 2
    /\ pendingSpawn # <<>>
    /\ gameMessage = Msg("Press any arrow key to start!")

-----------------------------------------------------------------------------
(* C12, on the canvas of src/constants.ts (SpecSourceCanvas) *)

C12_InitialSnake == <<Pos(180, 200), Pos(160, 200), Pos(140, 200)>>
C12_AfterTick == <<Pos(200, 200), Pos(180, 200), Pos(160, 200)>>

\* C12: on the 400 x 400 canvas with cells of 20, initGame leaves the snake
\* (180,200),(160,200),(140,200), direction right and score 0 (and so does the
\* mount, until the first tick), and a tick to the right from there that eats
\* no collectible leaves the snake (200,200),(180,200),(160,200).
C12_SourceCanvasValues ==
    /\ [](steps = 0 => snake = C12_InitialSnake)
    /\ [][/\ InitGame
              => snake' = C12_InitialSnake /\ direction' = "right" /\ score' = 0
          /\ (/\ Tick
              /\ snake = C12_InitialSnake
              /\ direction = "right"
              /\ ~LandsOnFood /\ ~LandsOnPowerUp)
              => snake' = C12_AfterTick]_vars

\* the first tick of a game went right and ate nothing
C12_Witness ==
    /\ canvas = SourceCanvas
    /\ steps = 1
    /\ Running
    /\ snake = C12_AfterTick
    /\ food # null
    /\ pendingSpawn = <<>>
    /\ score = 0

-----------------------------------------------------------------------------
(* C13 *)

\* a cell is the cell of some segment of a snake
OnSnake(c, s) == \E i \in 1 .. Len(s) : s[i].x = c.x /\ s[i].y = c.y

\* C13: the cell that initGame or a deferred generateCollectible places a
\* collectible on is, in the state the placement leaves, no cell of the
\* snake and not the cell of the other collectible.
C13_PlacedOffSnake ==
    [][(InitGame \/ Spawn)
         => /\ food' # null => ~OnSnake(food'[1], snake')
            /\ powerUp' # null => ~OnSnake(powerUp'[1], snake')
            /\ (food' # null /\ powerUp' # null)
                 => ~(food'[1].x = powerUp'[1].x /\ food'[1].y = powerUp'[1].y)]_vars

-----------------------------------------------------------------------------
(* C14 *)

\* C14: at most one collectible is on the grid: the food and a spawned
\* power-up are never both present.
C14_OneCollectible == ~(food # null /\ powerUp # null)

\* a spawn put a power-up on the grid and no food
C14_Witness ==
    /\ steps = 1
    /\ Len(snake) = 4
    /\ pendingSpawn = <<>>
    /\ powerUp # null
    /\ food = null

-----------------------------------------------------------------------------
(* C15, under SpecFair *)

ExactlyOneCollectible == (food # null) # (powerUp # null)

\* C15: a tick that eats a collectible defers a placement (pendingSpawn is
\* not empty after it); every deferred placement eventually runs and leaves
\* exactly one of food and power-up on the grid.
C15_EatenIsRefilled ==
    (pendingSpawn # <<>>) ~> (pendingSpawn = <<>> /\ ExactlyOneCollectible)

\* the first tick ate the food and the deferred placement put a new food
C15_Witness ==
    /\ steps = 1
    /\ Running
    /\ Len(snake) = 4
    /\ pendingSpawn = <<>>
    /\ food # null
    /\ ~OnSnake(food[1], snake)
    /\ powerUp = null

-----------------------------------------------------------------------------
(* C16 *)

\* C16: the active power-up is never a mystery box: whenever a power-up is
\* active, its kind is one of the seven kinds a mystery box can reveal.
C16_MysteryBoxResolved ==
    activePowerUp # null => activePowerUp[1].type \in PowerUpTypes \ {"mysteryBox"}

\* activatePowerUp was called in the idle game and left a timed kind active
C16_Witness ==
    /\ steps = 1
    /\ Idle
    /\ powerUp = null
    /\ activePowerUp # null
    /\ gameMessage = EffectMessage(activePowerUp[1].type)

-----------------------------------------------------------------------------
(* C17 *)

\* a step that applies the golden apple: activatePowerUp leaving the golden
\* apple message, or a tick that lands on a golden apple or on a mystery box
\* that reveals one
AppliesGoldenApple ==
    \/ gameMessage' = EffectMessage("goldenApple") /\ ActivatePowerUp
    \/ /\ Tick /\ LandsOnPowerUp
       /\ \/ powerUp[1].type = "goldenApple"
          \/ gameMessage' = EffectMessage("goldenApple")

\* C17: applying the golden apple adds exactly 5 points and leaves the
\* active power-up as it was; an active power-up is never the golden apple,
\* always has a duration other than 0 and is never instant.
C17_GoldenAppleIsInstant ==
    /\ [](activePowerUp # null
            => /\ activePowerUp[1].type # "goldenApple"
               /\ POWERUP_DURATIONS[activePowerUp[1].type] # 0
               /\ ~activePowerUp[1].isInstant)
    /\ [][AppliesGoldenApple
            => score' = score + Points(5) /\ activePowerUp' = activePowerUp]_vars

\* in the idle game a timed power-up was activated and then the golden
\* apple: 5 points, and the timed power-up is still the active one
C17_Witness ==
    /\ steps = 2
    /\ Idle
    /\ score = Points(5)
    /\ gameMessage = EffectMessage("goldenApple")
    /\ activePowerUp # null

-----------------------------------------------------------------------------
(* C18 *)

\* a step that runs applyPowerUpEffect: the command, or a tick that lands
\* on the spawned power-up
AppliesPowerUp == ActivatePowerUp \/ (Tick /\ LandsOnPowerUp /\ ~isGameOver')

-----------------------------------------------------------------------------
(* C19 *)

\* C19: the score is a whole number of points (an even number of half
\* points), never negative, and no step but initGame makes it smaller.
C19_ScoreWholeAndMonotone ==
    /\ [](score >= 0 /\ score % Points(1) = 0)
    /\ [][~InitGame => score' >= score]_vars

-----------------------------------------------------------------------------
(* C20 *)

\* C20: while the game is not running (not started, or over) no tick moves
\* the snake, no magnet step moves the food and no expiry clears the active
\* power-up: the snake changes only by initGame, a food that stays on the
\* grid changes its cell only by initGame or by a deferred placement, and an
\* active power-up is cleared only by initGame.
C20_TimersOffWhenNotRunning ==
    [][(~isGameStarted \/ isGameOver)
         => /\ snake' # snake => InitGame
            /\ (food # null /\ food' # null /\ food' # food) => (InitGame \/ Spawn)
            /\ (activePowerUp # null /\ activePowerUp' = null) => InitGame]_vars

\* the game ended with the magnet active and a food away from the head:
\* neither the magnet interval nor the expiry timer is armed any more
C20_Witness ==
    /\ steps = 2
    /\ isGameOver
    /\ ~isGameStarted
    /\ IsActive(activePowerUp, "magnetHead")
    /\ food # null
    /\ food[1] # snake[1]

-----------------------------------------------------------------------------
(* C21, with time measured (SpecTimed) *)

\* the message the expiry timer of a kind leaves
ExpiredMsg(type) == Msg(type \o " expired!")

TimedActive == activePowerUp # null /\ ~activePowerUp[1].isInstant

\* C21 as stated: while the game stays Running, a timed power-up whose expiry
\* timer is set keeps a set timer through every run of the effect, and is
\* cleared by that timer only, when its time is up.
C21_ClearedByTimer ==
    [][(Running /\ TimedActive /\ timers[1].powerUpTimerId # null /\ Running')
        => /\ TimedActive' => timers'[1].powerUpTimerId # null
           /\ activePowerUp' = null => timers[1].powerUpTimerId = Some(0)]_vars

\* C21, amended: while the game is Running the expiry timer of a timed
\* power-up is set to its end time at every run of the effect, or not set if
\* that time has come; no time passes beyond the end time while the power-up
\* is active; the power-up is cleared at its end time and not before, by the
\* timer or by the effect that ran at the end time; a newly activated
\* power-up gets the time of its own duration, whatever time the replaced
\* one had left.
C21_ClearedAtEndTime ==
    /\ []((Running /\ TimedActive)
          => IF remainingTime > 0
             THEN timers[1].powerUpTimerId = Some(remainingTime)
             ELSE timers[1].powerUpTimerId \in {null, Some(0)})
    /\ [][(timers' # timers /\ Running /\ TimedActive /\ Advance)
          => remainingTime > 0 /\ remainingTime' = remainingTime - TimeUnit]_vars
    /\ [][(TimedActive /\ activePowerUp' = null /\ Running /\ Running')
          => remainingTime = 0 /\ Expire]_vars
    /\ [][(activePowerUp' # null
           /\ (activePowerUp' # activePowerUp \/ remainingTime' > remainingTime))
          => remainingTime' = Life(activePowerUp'[1].type)]_vars

\* the game was started, snailTime was activated, a key press made the effect
\* run again and the timer fired: the game went on without a tick
C21_Witness ==
    /\ steps = 1
    /\ Running
    /\ activePowerUp = null
    /\ gameMessage = ExpiredMsg("snailTime")
    /\ direction = "up"
    /\ snake = initialSnake
    /\ timers[1].gameIntervalId = Some(INITIAL_SNAKE_SPEED_MS)

-----------------------------------------------------------------------------
(* C22 *)

\* C22: a step other than initGame that clears the active power-up (the
\* expiry) leaves snake, score, direction, food, spawned power-up and the
\* lifecycle flags as they were; the message is the expiry message of the
\* kind that was active, or is left as it was.
C22_ExpiryFrame ==
    [][(activePowerUp # null /\ activePowerUp' = null /\ ~InitGame)
         => /\ UNCHANGED <<snake, score, direction, food, powerUp,
                           isGameStarted, isGameOver>>
            /\ gameMessage' \in {ExpiredMsg(activePowerUp[1].type), gameMessage}]_vars

\* ghostTime was activated, a tick ate the food, the placement ran and the
\* expiry timer fired: four segments, the score of one food, a collectible
C22_Witness ==
    /\ steps = 2
    /\ Running
    /\ activePowerUp = null
    /\ gameMessage = ExpiredMsg("ghostTime")
    /\ Len(snake) = 4
    /\ score = 1
    /\ pendingSpawn = <<>>
    /\ ExactlyOneCollectible

-----------------------------------------------------------------------------
(* C23, with time measured (SpecTimed) *)

\* C23: while magnetHead stays active, the game Running and the food in
\* place, the magnet interval keeps its own period: the time left to its next
\* step is not set back by a main tick that moves the snake.
C23_MagnetPeriodKept ==
    [][(/\ snake' # snake
        /\ IsActive(activePowerUp, "magnetHead")
        /\ activePowerUp' = activePowerUp
        /\ remainingTime' <= remainingTime
        /\ food' = food
        /\ timers[1].magnetIntervalId # null
        /\ timers[1].magnetIntervalId # Some(0)
        /\ timers'[1].magnetIntervalId # null)
        => timers'[1].magnetIntervalId[1] <= timers[1].magnetIntervalId[1]]_vars

-----------------------------------------------------------------------------
(* C24, on the canvas of src/constants.ts (SpecSourceCanvas) *)

Magnitude(n) == IF n < 0 THEN -n ELSE n

OnGrid(c) == /\ c.x >= 0 /\ c.x < CANVAS_WIDTH /\ c.x % GRID_SIZE = 0
             /\ c.y >= 0 /\ c.y < CANVAS_HEIGHT /\ c.y % GRID_SIZE = 0

\* the food cells the magnet callback is applied to: the cells of the grid at
\* most MaxOffset cells away from the head along each axis
MagnetInputs ==
    {c \in {Pos(snake[1].x + i * GRID_SIZE, snake[1].y + j * GRID_SIZE) :
                i \in -MaxOffset .. MaxOffset, j \in -MaxOffset .. MaxOffset} : OnGrid(c)}

\* what C24 says of every axis rule: the food on the head stays, any other
\* food moves one grid unit along one axis and comes one unit nearer to the
\* head, and the new cell is a cell of the grid
MagnetStepMoves(f, h, n) ==
    /\ OnGrid(n)
    /\ f = h => n = f
    /\ f # h => /\ Magnitude(n.x - f.x) + Magnitude(n.y - f.y) = GRID_SIZE
                /\ Magnitude(h.x - n.x) + Magnitude(h.y - n.y)
                     = Magnitude(h.x - f.x) + Magnitude(h.y - f.y) - GRID_SIZE

\* C24 as stated: each magnet step moves the food one grid unit toward the
\* head along one axis, the axis with the larger absolute offset first; the
\* food stays on a cell of the grid, and a food on the head is not moved.
C24_LargerOffsetFirst ==
    \A f \in MagnetInputs :
        LET h == snake[1]
            n == magnetStep(f, h)
        IN /\ MagnetStepMoves(f, h, n)
           /\ Magnitude(h.x - f.x) > Magnitude(h.y - f.y) => n.y = f.y
           /\ Magnitude(h.y - f.y) > Magnitude(h.x - f.x) => n.x = f.x

\* C24, amended: each magnet step moves the food one grid unit toward the
\* head along one axis: along x whenever the food is not in the column of
\* the head, along y only when it is; the food stays on a cell of the grid,
\* and a food on the head is not moved.  The magnet interval's callback
\* leaves the food on that cell and changes nothing else.
C24_ColumnFirst ==
    /\ [](\A f \in MagnetInputs :
            LET h == snake[1]
                n == magnetStep(f, h)
            IN /\ MagnetStepMoves(f, h, n)
               /\ h.x # f.x => n.y = f.y
               /\ h.x = f.x => n.x = f.x)
    /\ [][Magnet
            => /\ food'[1].y = IF snake[1].x # food[1].x THEN food[1].y
                               ELSE IF snake[1].y > food[1].y THEN food[1].y + GRID_SIZE
                               ELSE IF snake[1].y < food[1].y THEN food[1].y - GRID_SIZE
                               ELSE food[1].y
               /\ food'[1].x = IF snake[1].x > food[1].x THEN food[1].x + GRID_SIZE
                               ELSE IF snake[1].x < food[1].x THEN food[1].x - GRID_SIZE
                               ELSE food[1].x
               /\ UNCHANGED <<snake, score, powerUp, activePowerUp, direction>>]_vars

\* magnetHead is active, the head went one cell down and the food, which was
\* one column to the right and one row up, was moved along x: it lies on the
\* neck of the snake
C24_Witness ==
    /\ canvas = SourceCanvas
    /\ steps = 2
    /\ Running
    /\ IsActive(activePowerUp, "magnetHead")
    /\ snake[1] = Pos(initialSnake[1].x, initialSnake[1].y + GRID_SIZE)
    /\ food = Some(snake[2])

-----------------------------------------------------------------------------
(* C25, with time measured (SpecTimed) *)

\* the period of the main tick as C25 spells it out
C25_Period(active) ==
    IF active = null THEN 150
    ELSE IF active[1].type = "speedBoost" THEN 75
    ELSE IF active[1].type = "snailTime" THEN 375
    ELSE 150

\* C25: the period of the main tick is 150 ms with no power-up, 75 ms under
\* speedBoost, 375 ms under snailTime and 150 ms under any other kind; while
\* the game is Running the game interval is set and never has more than that
\* period left; a step that changes the active power-up (activation,
\* replacement, expiry) and leaves the game Running sets the interval anew
\* with the whole period of the new state; a tick runs when its time is up.
C25_TickPeriod ==
    /\ [](/\ currentSpeed(null) = 150
          /\ \A t \in PowerUpTypes :
                currentSpeed(Some([type |-> t, isInstant |-> FALSE]))
                    = C25_Period(Some([type |-> t, isInstant |-> FALSE])))
    /\ [](Running => /\ timers[1].gameIntervalId # null
                     /\ timers[1].gameIntervalId[1] <= C25_Period(activePowerUp))
    /\ [][(Running' /\ (activePowerUp' # activePowerUp \/ remainingTime' > remainingTime))
          => timers'[1].gameIntervalId = Some(C25_Period(activePowerUp'))]_vars
    /\ [][(steps' # steps /\ snake' # snake)
          => timers[1].gameIntervalId = Some(0)]_vars

\* speedBoost was replaced by snailTime in the running game, before any tick
C25_Witness ==
    /\ steps = 2
    /\ Running
    /\ IsActive(activePowerUp, "snailTime")
    /\ snake = initialSnake
    /\ score = 0
    /\ remainingTime = Life("snailTime")
    /\ timers[1].gameIntervalId = Some(375)

-----------------------------------------------------------------------------
(* C26 *)

\* the head a tick pushes: the old head moved one unit, taken modulo the
\* canvas under the ghostTime that was active before the tick
C26_Head ==
    IF IsActive(activePowerUp, "ghostTime")
    THEN Pos(C1_Moved.x % CANVAS_WIDTH, C1_Moved.y % CANVAS_HEIGHT)
    ELSE C1_Moved
C26_OnFood == food # null /\ food[1].x = C26_Head.x /\ food[1].y = C26_Head.y
C26_OnPowerUp == /\ ~C26_OnFood
                 /\ powerUp # null
                 /\ powerUp[1].x = C26_Head.x /\ powerUp[1].y = C26_Head.y
\* the segments behind the pushed head once the consumption is applied: a food
\* keeps the tail, a power-up or nothing drops it
C26_Body == IF C26_OnFood THEN snake ELSE Front(snake)
\* the collision, judged with the power-up that was active before the tick
C26_Collides ==
    /\ ~IsActive(activePowerUp, "ghostTime")
    /\ \/ C26_Head.x < 0 \/ C26_Head.x >= CANVAS_WIDTH
       \/ C26_Head.y < 0 \/ C26_Head.y >= CANVAS_HEIGHT
       \/ \E i \in 1 .. Len(C26_Body) : C26_Body[i] = C26_Head

-----------------------------------------------------------------------------
(* C27, on the canvas of one row (SpecStripCanvas), where getRandomGridCoords *)
(* yields every cell of the grid                                              *)

\* C27: a placement that is due returns: generateCollectiblePosition has a
\* cell to return for the snake the placement was deferred with, also when
\* that snake covers the whole grid.
C27_PlacementReturns ==
    pendingSpawn # <<>>
        => generateCollectiblePosition(Head(pendingSpawn), null, null) # {}

-----------------------------------------------------------------------------
(* C28, on the canvas of one row (SpecStripCanvas) *)

\* two cells at distance one grid unit along one axis
Adjacent(a, b) ==
    \/ a.y = b.y /\ Magnitude(a.x - b.x) = GRID_SIZE
    \/ a.x = b.x /\ Magnitude(a.y - b.y) = GRID_SIZE

\* two cells one grid unit apart along one axis on the canvas taken as a
\* torus: the difference is one grid unit modulo the width or the height
TorusAdjacent(a, b) ==
    \/ a.y = b.y /\ (a.x - b.x) % CANVAS_WIDTH
                       \in {GRID_SIZE % CANVAS_WIDTH, (CANVAS_WIDTH - GRID_SIZE) % CANVAS_WIDTH}
    \/ a.x = b.x /\ (a.y - b.y) % CANVAS_HEIGHT
                       \in {GRID_SIZE % CANVAS_HEIGHT, (CANVAS_HEIGHT - GRID_SIZE) % CANVAS_HEIGHT}

-----------------------------------------------------------------------------
(* C29 *)

\* the head of a candidate snake is outside the grid
C29_OutOfGrid(c) ==
    c[1].x < 0 \/ c[1].x >= CANVAS_WIDTH \/ c[1].y < 0 \/ c[1].y >= CANVAS_HEIGHT

\* C29: with no ghostTime active, for every candidate snake (any head, in or
\* around the grid, before the segments of the snake) checkCollision is true
\* exactly when the head is outside the grid or is the cell of a segment
\* behind it, and checkCollisions(head, the segments behind it) is the same;
\* a tick without ghostTime ends the game exactly in that case.
C29_CollisionLaw ==
    /\ [](~IsActive(activePowerUp, "ghostTime")
            => \A c \in CandidateSnakes :
                  LET hit == \/ C29_OutOfGrid(c)
                             \/ c[1] \in {c[i] : i \in 2 .. Len(c)}
                  IN /\ checkCollision(c, activePowerUp) = hit
                     /\ checkCollisions(c[1], Tail(c), activePowerUp) = hit)
    /\ [][(steps' # steps /\ ~IsActive(activePowerUp, "ghostTime") /\ Tick)
            => isGameOver' = (\/ C29_OutOfGrid(<<C1_Moved>>)
                              \/ C1_Moved \in {C26_Body[i] : i \in 1 .. Len(C26_Body)})]_vars

\* with no power-up active the snake went up to the top row and the next
\* tick took the head out of the grid
C29_Witness ==
    /\ steps = 2
    /\ isGameOver
    /\ activePowerUp = null
    /\ direction = "up"
    /\ snake[1] = Pos(initialSnake[1].x, initialSnake[1].y - GRID_SIZE)
    /\ gameMessage = GameOverMsg(score)

-----------------------------------------------------------------------------
(* C30 *)

\* C30: for every head on the grid and every direction, the next head under
\* ghostTime is the head moved one grid unit in the direction and taken
\* modulo the canvas, a cell of the grid; under any other power-up or none
\* it is the moved head as it is, off the grid when the head was at the
\* edge; wrapPosition leaves every cell of the grid as it is.  A tick under
\* ghostTime leaves the head on the grid.
C30_NextHeadLaw ==
    /\ [](\A h \in GridCells(canvas) :
            /\ wrapPosition(h.x, h.y) = h
            /\ \A d \in Directions :
                 LET moved == Pos(h.x + StepX(d), h.y + StepY(d))
                     ghost == NextHead(<<h>>, d, Some([type |-> "ghostTime", isInstant |-> FALSE]))
                 IN /\ ghost = Pos(moved.x % CANVAS_WIDTH, moved.y % CANVAS_HEIGHT)
                    /\ OnGrid(ghost)
                    /\ NextHead(<<h>>, d, null) = moved
                    /\ ~IsActive(activePowerUp, "ghostTime")
                         => NextHead(<<h>>, d, activePowerUp) = moved)
    /\ [][(steps' # steps /\ IsActive(activePowerUp, "ghostTime") /\ Tick)
            => /\ OnGrid(snake'[1])
               /\ snake'[1] = Pos(C1_Moved.x % CANVAS_WIDTH, C1_Moved.y % CANVAS_HEIGHT)]_vars

\* under ghostTime the first tick went down from the bottom row and the head
\* came back in on the top row
C30_Witness ==
    LET h == initialSnake[1] IN
    /\ IsActive(activePowerUp, "ghostTime")
    /\ h.y = CANVAS_HEIGHT - GRID_SIZE
    /\ snake = <<Pos(h.x, 0), h, initialSnake[2]>>
    /\ Running

-----------------------------------------------------------------------------
(* C31 *)

\* C31: for the head (and every other segment) of the snake, getVisibleCells
\* is empty when blackoutMode is not active and is otherwise the set of the
\* cells of the grid at a distance of at most 3 cells from it, the cell
\* itself among them; a tick under blackoutMode moves, collides, scores and ends as the
\* same tick does with no active power-up, and leaves blackoutMode active
\* unless it picks up a power-up.
C31_BlackoutOnlyVisibleCells ==
    /\ [](\A h \in {snake[i] : i \in 1 .. Len(snake)} :
            getVisibleCells(h) =
                IF activePowerUp # null /\ activePowerUp[1].type = "blackoutMode"
                THEN {c \in GridCells(canvas) :
                        (c.x - h.x) * (c.x - h.x) + (c.y - h.y) * (c.y - h.y)
                            <= 9 * GRID_SIZE * GRID_SIZE}
                ELSE {})
    /\ [](IsActive(activePowerUp, "blackoutMode") => snake[1] \in getVisibleCells(snake[1]))
    /\ [][(steps' # steps /\ IsActive(activePowerUp, "blackoutMode") /\ Tick)
          => LET head == NextHead(snake, direction, null)
                 eatsFood == food # null /\ head = food[1]
                 eatsPowerUp == /\ ~eatsFood /\ powerUp # null
                                /\ head.x = powerUp[1].x /\ head.y = powerUp[1].y
                 newSnake == IF eatsFood THEN <<head>> \o snake
                             ELSE <<head>> \o Front(snake)
                 collides == checkCollision(newSnake, null)
             IN /\ isGameOver' = collides
                /\ isGameStarted' = ~collides
                /\ snake' = IF collides THEN snake ELSE newSnake
                /\ eatsFood => score' = score + pointsToAdd(null)
                /\ (~eatsFood /\ ~eatsPowerUp) => score' = score
                /\ ~eatsPowerUp => activePowerUp' = activePowerUp]_vars

\* blackoutMode was activated in the running game and a tick moved the snake
C31_Witness ==
    /\ steps = 2
    /\ Running
    /\ IsActive(activePowerUp, "blackoutMode")
    /\ snake = MovedRight(1)
    /\ getVisibleCells(snake[1]) # GridCells(canvas)
    /\ getVisibleCells(snake[1]) # {}

-----------------------------------------------------------------------------
(* C32 *)

\* C32: a placement that a tick of the previous game deferred and that runs
\* in the Idle snapshot initGame has left (the game is Idle with a placement
\* pending only then) does not alter it: the food stays the food initGame
\* placed, no power-up is on the grid and no collectible lies on the snake.
C32_StaleSpawnKeepsReset ==
    [][(Idle /\ pendingSpawn # <<>> /\ Spawn)
         => /\ food' = food
            /\ powerUp' = null
            /\ food' # null /\ ~OnSnake(food'[1], snake')]_vars

-----------------------------------------------------------------------------
(* C33 *)

\* C33: in every reachable state isGameStarted and isGameOver are not both
\* true.
C33_NotStartedAndOver == ~(isGameStarted /\ isGameOver)

\* the game was started by the up key, ate the food above the head and ran
\* into the wall: it is over and not started
C33_Witness ==
    /\ steps = 2
    /\ isGameOver
    /\ ~isGameStarted
    /\ direction = "up"
    /\ ~changingDirectionRef
    /\ score = 1
    /\ Len(snake) = 4

-----------------------------------------------------------------------------
(* C34 *)

\* C34: in every reachable state every segment of the snake is a cell of the
\* grid: 0 <= x < width, 0 <= y < height, x and y multiples of the cell
\* size; with or without ghostTime, and when the game is over.
C34_SegmentsInGrid ==
    \A i \in 1 .. Len(snake) :
        /\ 0 <= snake[i].x /\ snake[i].x < CANVAS_WIDTH
        /\ 0 <= snake[i].y /\ snake[i].y < CANVAS_HEIGHT
        /\ snake[i].x % GRID_SIZE = 0
        /\ snake[i].y % GRID_SIZE = 0

\* the game is over after a tick toward the wall from the top row, the head
\* still on the top row
C34_Witness ==
    /\ steps = 2
    /\ isGameOver
    /\ activePowerUp = null
    /\ direction = "up"
    /\ score = 0
    /\ snake = <<Pos(initialSnake[1].x, initialSnake[1].y - GRID_SIZE),
                 initialSnake[1], initialSnake[2]>>
    /\ snake[1].y = 0

-----------------------------------------------------------------------------
(* C35 *)

\* C35: in every reachable state the food, when present, is on no segment of
\* the snake, neither the head nor the body.
C35_FoodOffSnake ==
    food # null => \A i \in 1 .. Len(snake) : snake[i] # food[1]

-----------------------------------------------------------------------------
(* C36, on the canvas of src/constants.ts (SpecSourceCanvas) *)

\* C36: in every reachable state, whatever changeDirection calls came since
\* the last tick, the cell one grid unit from the head in the current
\* direction (the candidate head of the next tick) is not the cell of the
\* second segment; it is the head's own displacement from the second segment
\* or a quarter turn from it.
C36_NeverOntoNeck ==
    /\ Len(snake) >= 2
    /\ Pos(snake[1].x + StepX(direction), snake[1].y + StepY(direction)) # snake[2]
    /\ NextHead(snake, direction, activePowerUp) # snake[2]

\* two quarter turns in two ticks (up, then left) and a third one requested
\* (down): the snake has turned round without stepping on its neck
C36_Witness ==
    /\ canvas = SourceCanvas
    /\ steps = 2
    /\ Running
    /\ direction = "down"
    /\ changingDirectionRef
    /\ snake = <<Pos(initialSnake[1].x - GRID_SIZE, initialSnake[1].y - GRID_SIZE),
                 Pos(initialSnake[1].x, initialSnake[1].y - GRID_SIZE),
                 initialSnake[1]>>

-----------------------------------------------------------------------------
(* C37, with the PLAY AGAIN button (SpecUI) *)

\* C37: the PLAY AGAIN action leaves the reset snapshot (score 0, the initial
\* snake) with the game Running: isGameStarted is true and isGameOver false.
C37_PlayAgainRestarts ==
    [][PlayAgain => /\ score' = 0
                    /\ snake' = initialSnake
                    /\ isGameStarted'
                    /\ ~isGameOver']_vars

-----------------------------------------------------------------------------
(* C38, from the curled snake (SpecCurled), where a tick can eat and collide *)

\* C38: when a tick ends the game, the game-over message shows the score of
\* the state the tick leaves; a final tick whose head lands on the food has
\* raised that score, a final tick that lands on no collectible has not.
C38_MessageCarriesFinalScore ==
    [][(isGameOver' /\ ~isGameOver)
         => LET moved == Pos(snake[1].x + StepX(direction), snake[1].y + StepY(direction))
                onFood == food # null /\ moved = food[1]
                onPowerUp == powerUp # null /\ moved.x = powerUp[1].x
                                            /\ moved.y = powerUp[1].y
            IN /\ gameMessage'.text = "Game Over! Final Score"
               /\ gameMessage'.score = score'
               /\ onFood => score' > score
               /\ (~onFood /\ ~onPowerUp) => score' = score]_vars

\* the first tick from the curled snake ate the food on the tail cell, which
\* kept the tail, and so ran into it: the message shows the score with the
\* points of that tick
C38_Witness ==
    /\ steps = 1
    /\ isGameOver
    /\ food = null
    /\ score = 2
    /\ gameMessage = GameOverMsg(2)
    /\ Len(snake) = 4
    /\ snake[4] = initialSnake[2]
    /\ direction = "down"

-----------------------------------------------------------------------------
(* C39, from the curled snake (SpecCurled) *)

\* C39: the snake has at least 3 segments; a tick whose head lands on the
\* food and that does not end the game makes it one segment longer; every
\* other step except initGame (a tick that eats nothing, picks up a power-up
\* or collides, an expiry, a magnet step, a placement, a command) leaves its
\* length; initGame sets it to 3.
C39_LengthLaw ==
    /\ [](Len(snake) >= 3)
    /\ [][IF steps' # steps /\ LandsOnFood /\ ~isGameOver' /\ Tick
          THEN Len(snake') = Len(snake) + 1
          ELSE \/ Len(snake') = Len(snake)
               \/ Len(snake') = 3 /\ InitGame]_vars

\* after initGame the snake ate a food and moved on: four segments
C39_Witness ==
    /\ steps = 2
    /\ Running
    /\ activePowerUp = null
    /\ score = 1
    /\ Len(snake) = 4
    /\ pendingSpawn = <<>>
    /\ food # null

-----------------------------------------------------------------------------
(* C40 *)

\* C40: in every Running state a food or a spawned power-up is on the grid,
\* or a placement is pending that will put one there.
C40_RunningHasCollectible ==
    (isGameStarted /\ ~isGameOver)
        => (food # null \/ powerUp # null \/ pendingSpawn # <<>>)

====
